---- MODULE Spec2Model ----
(***************************************************************************)
(* A model of evelink's Char wrapper (src/evelink/char.py): every public   *)
(* method takes the parsed XML document that the transport layer           *)
(* (api.auto_call / api.API.get) hands it as `api_result`, normalizes it   *)
(* and returns api.APIResult(result, timestamp, expires).                  *)
(*                                                                         *)
(* Python values are encoded as follows.                                   *)
(*   str that the code parses : a sequence of one-character strings        *)
(*   str the code only copies : a TLA+ string                              *)
(*   int / float              : an integer                                 *)
(*   None                     : <<>>   (a value v that may be None: <<v>>) *)
(*   list                     : a sequence                                 *)
(*   dict                     : a function; where keys of several Python   *)
(*                              types can meet, keys are IntKey / StrKey   *)
(*   a raised exception       : the envelope Raise                         *)
(***************************************************************************)
EXTENDS Integers, Sequences, FiniteSets, TLC

VARIABLES
    self,        \* the Char object: [char_id, api]
    api_result,  \* the document of the transport layer: [path, result, timestamp, expires]
    args,        \* the caller's positional arguments of the call
    op,          \* the method invoked last ("" before the first call)
    ret,         \* what the last call returned: an envelope, or Raise
    calls        \* number of calls made on the object

vars == <<self, api_result, args, op, ret, calls>>

-----------------------------------------------------------------------------
(* Bounds of the model *)

MaxRows == 2     \* rows per rowset
MaxCalls == 2    \* calls made on one object
MaxDepth == 3    \* nesting depth of asset containers

-----------------------------------------------------------------------------
(* Python values *)

None == <<>>
Just(v) == <<v>>

DigitVal == ("0" :> 0) @@ ("1" :> 1) @@ ("2" :> 2) @@ ("3" :> 3) @@ ("4" :> 4) @@
            ("5" :> 5) @@ ("6" :> 6) @@ ("7" :> 7) @@ ("8" :> 8) @@ ("9" :> 9)

\* the texts int() accepts, among the texts of the model (digits, "x", ",")
IsIntText(s) == Len(s) > 0 /\ \A i \in 1..Len(s) : s[i] \in DOMAIN DigitVal

RECURSIVE int(_)
int(s) == IF Len(s) = 0 THEN 0
          ELSE int(SubSeq(s, 1, Len(s) - 1)) * 10 + DigitVal[s[Len(s)]]

\* float(): on the texts of the model (digits only) it accepts what int()
\* accepts and yields the same number
IsFloatText(s) == IsIntText(s)
float(s) == int(s)

\* api.parse_ts: the epoch seconds of a "YYYY-MM-DD HH:MM:SS" text
TsTable == (<<"2012-01-01 00:00:00">> :> 1325376000) @@
           (<<"2012-06-15 12:30:00">> :> 1339763400)
IsTsText(s) == s \in DOMAIN TsTable
parse_ts(s) == TsTable[s]

\* str.split(sep): the pieces between the separators, empty pieces included
RECURSIVE split(_, _)
split(s, sep) ==
    IF \A i \in 1..Len(s) : s[i] # sep THEN <<s>>
    ELSE LET i == CHOOSE j \in 1..Len(s) : s[j] = sep /\ \A k \in 1..(j - 1) : s[k] # sep
         IN <<SubSeq(s, 1, i - 1)>> \o split(SubSeq(s, i + 1, Len(s)), sep)

\* dict keys of the two Python types that meet in one dict
IntKey(n) == [t |-> "int", n |-> n, s |-> <<>>]
StrKey(s) == [t |-> "str", n |-> 0, s |-> s]

EmptyDict == [k \in {} |-> None]
DictSet(d, k, v) == [x \in DOMAIN d \cup {k} |-> IF x = k THEN v ELSE d[x]]

-----------------------------------------------------------------------------
(* The parsed document (an ElementTree element) *)

\* an element: its <rowset> children in document order, its other children
\* that hold text (tag -> text, <<>> for no text) and those that hold elements
Element(rowsets, elems, children) ==
    [rowsets |-> rowsets, elems |-> elems, children |-> children]

NoChildren == [k \in {} |-> None]

Rowset(name, rows) == [name |-> name, rows |-> rows]

\* a row: its attributes, its text (None if it has none), its nested rowsets
Row(attrib, text) == [attrib |-> attrib, text |-> text, rowsets |-> <<>>]

\* Element.find('rowset'): the first rowset child, or None
find_rowset(elem) == IF Len(elem.rowsets) = 0 THEN None ELSE Just(elem.rowsets[1])

\* Element.find(tag) is not None
has(elem, tag) == tag \in DOMAIN elem.elems

\* every row of the rowset has these attributes (a[...] raises KeyError otherwise)
HasAttribs(rows, names) ==
    \A i \in 1..Len(rows) : \A n \in names : n \in DOMAIN rows[i].attrib

\* every row of the rowset holds a text int() accepts in these attributes
IntAttribs(rows, names) ==
    \A i \in 1..Len(rows) : \A n \in names : IsIntText(rows[i].attrib[n])

\* every row of the rowset holds a text float() / api.parse_ts accepts there
FloatAttribs(rows, names) ==
    \A i \in 1..Len(rows) : \A n \in names : IsFloatText(rows[i].attrib[n])
TsAttribs(rows, names) ==
    \A i \in 1..Len(rows) : \A n \in names : IsTsText(rows[i].attrib[n])

\* `for row in rows: result[key(row)] = val(row)`, from an empty dict
DictOf(rows, key(_), val(_)) ==
    [k \in {key(rows[i]) : i \in 1..Len(rows)} |->
        val(rows[CHOOSE i \in 1..Len(rows) :
                     key(rows[i]) = k /\ \A j \in (i + 1)..Len(rows) : key(rows[j]) # k])]

\* `for row in rows: result.append(val(row))`, from an empty list
ListOf(rows, val(_)) == [i \in 1..Len(rows) |-> val(rows[i])]

-----------------------------------------------------------------------------
(* The envelope *)

APIResult(result, timestamp, expires) ==
    [kind |-> "ok", result |-> result, timestamp |-> timestamp, expires |-> expires]

\* the call raised: no envelope is returned
Raise == [kind |-> "error"]

NotCalled == [kind |-> "none"]

-----------------------------------------------------------------------------
(* Char.message_bodies and Char.notification_texts *)

RECURSIVE message_bodies_rows(_, _)
message_bodies_rows(rows, n) ==
    IF n = 0 THEN EmptyDict
    ELSE DictSet(message_bodies_rows(rows, n - 1),
                 IntKey(int(rows[n].attrib["messageID"])), rows[n].text)

RECURSIVE message_bodies_missing(_, _, _)
message_bodies_missing(results, missing_ids, n) ==
    IF n = 0 THEN results
    ELSE DictSet(message_bodies_missing(results, missing_ids, n - 1),
                 IntKey(int(missing_ids[n])), None)

message_bodies(message_ids, r) ==
    LET rowset == find_rowset(r.result) IN
    IF rowset = None THEN Raise
    ELSE LET rows == rowset[1].rows IN
    IF ~HasAttribs(rows, {"messageID"}) THEN Raise
    ELSE IF ~IntAttribs(rows, {"messageID"}) THEN Raise
    ELSE LET results == message_bodies_rows(rows, Len(rows)) IN
    IF ~has(r.result, "missingMessageIDs")
    THEN APIResult(results, r.timestamp, r.expires)
    ELSE LET text == r.result.elems["missingMessageIDs"] IN
    IF text = None THEN Raise
    ELSE LET pieces == split(text, ",") IN
    IF \E i \in 1..Len(pieces) : ~IsIntText(pieces[i]) THEN Raise
    ELSE APIResult(message_bodies_missing(results, pieces, Len(pieces)),
                   r.timestamp, r.expires)

\* api.parse_keyval_data(row.text): the key/value pairs of a notification's body
parse_keyval_data(text) == [data |-> text]

RECURSIVE notification_texts_rows(_, _)
notification_texts_rows(rows, n) ==
    IF n = 0 THEN EmptyDict
    ELSE LET notification_id == int(rows[n].attrib["notificationID"])
         IN DictSet(notification_texts_rows(rows, n - 1), IntKey(notification_id),
                    Just([id |-> notification_id] @@ parse_keyval_data(rows[n].text)))

RECURSIVE notification_texts_missing(_, _, _)
notification_texts_missing(result, missing_ids, n) ==
    IF n = 0 THEN result
    ELSE DictSet(notification_texts_missing(result, missing_ids, n - 1),
                 StrKey(missing_ids[n]), None)

notification_texts(notification_ids, r) ==
    LET rowset == find_rowset(r.result) IN
    IF rowset = None THEN Raise
    ELSE LET rows == rowset[1].rows IN
    IF ~HasAttribs(rows, {"notificationID"}) THEN Raise
    ELSE IF ~IntAttribs(rows, {"notificationID"}) THEN Raise
    ELSE LET result == notification_texts_rows(rows, Len(rows)) IN
    IF ~has(r.result, "missingIDs")
    THEN APIResult(result, r.timestamp, r.expires)
    ELSE LET text == r.result.elems["missingIDs"] IN
    IF text = None THEN Raise
    ELSE LET pieces == split(text, ",") IN
         APIResult(notification_texts_missing(result, pieces, Len(pieces)),
                   r.timestamp, r.expires)

-----------------------------------------------------------------------------
(* The object, the transport layer's document and a call *)

\* Char.__init__
CharInit(char_id, api) == [api |-> api, char_id |-> char_id]

\* what api.auto_call hands the method as api_result: the parsed document of
\* the endpoint `path` and the two timestamps of the transport layer
Document(path, result, timestamp, expires) ==
    [path |-> path, result |-> result, timestamp |-> timestamp, expires |-> expires]

\* a method that counts its calls in the object
Return_counting(o, r) ==
    /\ calls < MaxCalls
    /\ op' = o
    /\ ret' = r
    /\ calls' = calls + 1
    /\ self' = [self EXCEPT !.char_id = @ + 1]
    /\ UNCHANGED <<api_result, args>>

\* a method returns (or raises): the object and the document are only read
Return(o, r) ==
    /\ calls < MaxCalls
    /\ op' = o
    /\ ret' = r
    /\ calls' = calls + 1
    /\ UNCHANGED <<self, api_result, args>>

Start(o, a, doc) ==
    /\ self = CharInit(o, a)
    /\ api_result = doc
    /\ op = ""
    /\ ret = NotCalled
    /\ calls = 0

MessageBodies ==
    /\ api_result.path = "char/MailBodies"
    /\ Return("message_bodies", message_bodies(args, api_result))

NotificationTexts ==
    /\ api_result.path = "char/NotificationTexts"
    /\ Return("notification_texts", notification_texts(args, api_result))

-----------------------------------------------------------------------------
(* api.elem_getters: typed accessors of a named child element's text *)

\* the text of the child, None if there is no such child or it has no text
get_named_value(elem, key) ==
    IF has(elem, key) /\ elem.elems[key] # <<>> THEN Just(elem.elems[key]) ELSE None

get_int_value(elem, key) ==
    LET val == get_named_value(elem, key) IN IF val = None THEN None ELSE Just(int(val[1]))

get_float_value(elem, key) ==
    LET val == get_named_value(elem, key) IN IF val = None THEN None ELSE Just(float(val[1]))

get_ts_value(elem, key) ==
    LET val == get_named_value(elem, key) IN IF val = None THEN None ELSE Just(parse_ts(val[1]))

get_bool_value(elem, key) == get_named_value(elem, key) = Just(<<"1">>)

\* the getters raise on a text they cannot convert
getters_ok(elem, ints, floats, tss) ==
    /\ \A k \in ints : get_named_value(elem, k) # None => IsIntText(elem.elems[k])
    /\ \A k \in floats : get_named_value(elem, k) # None => IsFloatText(elem.elems[k])
    /\ \A k \in tss : get_named_value(elem, k) # None => IsTsText(elem.elems[k])

-----------------------------------------------------------------------------
(* Char.notifications *)

notifications_key(row) == int(row.attrib["notificationID"])

notifications_truthy(row) ==
    LET a == row.attrib
        notification_id == int(a["notificationID"])
    IN [id |-> notification_id,
        type_id |-> int(a["typeID"]),
        sender_id |-> int(a["senderID"]),
        timestamp |-> parse_ts(a["sentDate"]),
        read |-> a["read"] # <<>> /\ a["read"] # <<"0">>]

notifications_entry(row) ==
    LET a == row.attrib
        notification_id == int(a["notificationID"])
    IN [id |-> notification_id,
        type_id |-> int(a["typeID"]),
        sender_id |-> int(a["senderID"]),
        timestamp |-> parse_ts(a["sentDate"]),
        read |-> a["read"] = <<"1">>]

notifications(r) ==
    LET rowset == find_rowset(r.result) IN
    IF rowset = None THEN Raise
    ELSE LET rows == rowset[1].rows IN
    IF ~HasAttribs(rows, {"notificationID", "typeID", "senderID", "sentDate", "read"})
    THEN Raise
    ELSE IF ~IntAttribs(rows, {"notificationID", "typeID", "senderID"}) THEN Raise
    ELSE IF ~TsAttribs(rows, {"sentDate"}) THEN Raise
    ELSE APIResult(DictOf(rows, notifications_key, notifications_entry),
                   r.timestamp, r.expires)

Notifications ==
    /\ api_result.path = "char/Notifications"
    /\ Return("notifications", notifications(api_result))

-----------------------------------------------------------------------------
(* Char.calendar_events *)

calendar_events_key(row) == int(row.attrib["eventID"])

calendar_events_entry(row) ==
    LET a == row.attrib
    IN [id |-> int(a["eventID"]),
        owner |-> [id |-> int(a["ownerID"]),
                   name |-> IF a["ownerName"] = <<>> THEN None ELSE Just(a["ownerName"])],
        start_ts |-> parse_ts(a["eventDate"]),
        title |-> a["eventTitle"],
        duration |-> int(a["duration"]),
        important |-> a["importance"] = <<"1">>,
        description |-> a["eventText"],
        response |-> a["response"]]

calendar_events(r) ==
    LET rowset == find_rowset(r.result) IN
    IF rowset = None THEN Raise
    ELSE LET rows == rowset[1].rows IN
    IF ~HasAttribs(rows, {"eventID", "ownerID", "ownerName", "eventDate", "eventTitle",
                          "duration", "importance", "eventText", "response"})
    THEN Raise
    ELSE IF ~IntAttribs(rows, {"eventID", "ownerID", "duration"}) THEN Raise
    ELSE IF ~TsAttribs(rows, {"eventDate"}) THEN Raise
    ELSE APIResult(DictOf(rows, calendar_events_key, calendar_events_entry),
                   r.timestamp, r.expires)

CalendarEvents ==
    /\ api_result.path = "char/UpcomingCalendarEvents"
    /\ Return("calendar_events", calendar_events(api_result))

-----------------------------------------------------------------------------
(* Char.current_training *)

current_training(r) ==
    LET e == r.result IN
    IF ~getters_ok(e, {"trainingTypeID", "trainingStartSP", "trainingDestinationSP",
                       "trainingToLevel"}, {},
                   {"trainingStartTime", "trainingEndTime", "currentTQTime"})
    THEN Raise
    ELSE APIResult([start_ts |-> get_ts_value(e, "trainingStartTime"),
                    end_ts |-> get_ts_value(e, "trainingEndTime"),
                    type_id |-> get_int_value(e, "trainingTypeID"),
                    start_sp |-> get_int_value(e, "trainingStartSP"),
                    end_sp |-> get_int_value(e, "trainingDestinationSP"),
                    current_ts |-> get_ts_value(e, "currentTQTime"),
                    level |-> get_int_value(e, "trainingToLevel"),
                    active |-> get_bool_value(e, "skillInTraining")],
                   r.timestamp, r.expires)

CurrentTraining ==
    /\ api_result.path = "char/SkillInTraining"
    /\ Return("current_training", current_training(api_result))

-----------------------------------------------------------------------------
(* Char.character_sheet *)

\* `for rowset in elem.findall('rowset'): rowsets[rowset.attrib['name']] = rowset`
rowsets_by_name(rowsets) ==
    [name \in {rowsets[i].name : i \in 1..Len(rowsets)} |->
        rowsets[CHOOSE i \in 1..Len(rowsets) :
                    rowsets[i].name = name /\ \A j \in (i + 1)..Len(rowsets) : rowsets[j].name # name]]

\* constants.Char().corp_roles: the caller-facing name of each roles rowset
corp_roles == [global |-> "corporationRoles",
               at_hq |-> "corporationRolesAtHQ",
               at_base |-> "corporationRolesAtBase",
               at_other |-> "corporationRolesAtOther"]

CharacterAttributes == {"intelligence", "memory", "charisma", "perception", "willpower"}

RECURSIVE sum_skillpoints(_, _)
sum_skillpoints(rows, n) ==
    IF n = 0 THEN 0 ELSE sum_skillpoints(rows, n - 1) + int(rows[n].attrib["skillpoints"])

character_sheet_skill(row) ==
    LET a == row.attrib
    IN [id |-> int(a["typeID"]),
        skillpoints |-> int(a["skillpoints"]),
        level |-> int(a["level"]),
        published |-> a["published"] = <<"1">>]

character_sheet_attribute(e, attr) ==
    LET base == int(e.elems["attributes/" \o attr])
        path == "attributeEnhancers/" \o attr \o "Bonus"
    IN IF path \in DOMAIN e.children
       THEN LET bonus == e.children[path]
                mod == int(bonus.elems["augmentatorValue"])
            IN [base |-> base, total |-> base + mod,
                bonus |-> [name |-> get_named_value(bonus, "augmentatorName"),
                           value |-> mod]]
       ELSE [base |-> base, total |-> base]

character_sheet_role_key(row) == int(row.attrib["roleID"])
character_sheet_role(row) ==
    [id |-> int(row.attrib["roleID"]), name |-> row.attrib["roleName"]]

character_sheet_title_key(row) == int(row.attrib["titleID"])
character_sheet_title(row) ==
    [id |-> int(row.attrib["titleID"]), name |-> row.attrib["titleName"]]

\* `x or None` of a value that may be None: 0 is falsy
or_none(v) == IF v = None \/ v = Just(0) THEN None ELSE v

\* nothing raises while the sheet is built
character_sheet_ok(e) ==
    /\ getters_ok(e, {"characterID", "corporationID", "allianceID", "cloneSkillPoints"},
                  {"balance"}, {"DoB"})
    /\ \A attr \in CharacterAttributes :
           /\ ("attributes/" \o attr) \in DOMAIN e.elems
           /\ IsIntText(e.elems["attributes/" \o attr])
           /\ LET path == "attributeEnhancers/" \o attr \o "Bonus"
              IN path \in DOMAIN e.children =>
                     /\ has(e.children[path], "augmentatorValue")
                     /\ IsIntText(e.children[path].elems["augmentatorValue"])
    /\ LET rowsets == rowsets_by_name(e.rowsets)
       IN /\ {"skills", "certificates", "corporationTitles"} \subseteq DOMAIN rowsets
          /\ \A our_role \in DOMAIN corp_roles : corp_roles[our_role] \in DOMAIN rowsets
          /\ HasAttribs(rowsets["skills"].rows, {"skillpoints", "typeID", "level", "published"})
          /\ IntAttribs(rowsets["skills"].rows, {"skillpoints", "typeID", "level"})
          /\ HasAttribs(rowsets["certificates"].rows, {"certificateID"})
          /\ IntAttribs(rowsets["certificates"].rows, {"certificateID"})
          /\ \A our_role \in DOMAIN corp_roles :
                 /\ HasAttribs(rowsets[corp_roles[our_role]].rows, {"roleID", "roleName"})
                 /\ IntAttribs(rowsets[corp_roles[our_role]].rows, {"roleID"})
          /\ HasAttribs(rowsets["corporationTitles"].rows, {"titleID", "titleName"})
          /\ IntAttribs(rowsets["corporationTitles"].rows, {"titleID"})

character_sheet(r) ==
    LET e == r.result
        rowsets == rowsets_by_name(e.rowsets)
    IN IF ~character_sheet_ok(e) THEN Raise
       ELSE APIResult(
           [id |-> get_int_value(e, "characterID"),
            name |-> get_named_value(e, "name"),
            create_ts |-> get_ts_value(e, "DoB"),
            race |-> get_named_value(e, "race"),
            bloodline |-> get_named_value(e, "bloodLine"),
            ancestry |-> get_named_value(e, "ancestry"),
            gender |-> get_named_value(e, "gender"),
            corp |-> [id |-> get_int_value(e, "corporationID"),
                      name |-> get_named_value(e, "corporationName")],
            alliance |-> [id |-> or_none(get_int_value(e, "allianceID")),
                          name |-> get_named_value(e, "allianceName")],
            clone |-> [name |-> get_named_value(e, "cloneName"),
                       skillpoints |-> get_int_value(e, "cloneSkillPoints")],
            balance |-> get_float_value(e, "balance"),
            attributes |-> [attr \in CharacterAttributes |-> character_sheet_attribute(e, attr)],
            skills |-> ListOf(rowsets["skills"].rows, character_sheet_skill),
            skillpoints |-> sum_skillpoints(rowsets["skills"].rows, Len(rowsets["skills"].rows)),
            certificates |-> {int(rowsets["certificates"].rows[i].attrib["certificateID"]) :
                                 i \in 1..Len(rowsets["certificates"].rows)},
            roles |-> [our_role \in DOMAIN corp_roles |->
                          DictOf(rowsets[corp_roles[our_role]].rows,
                                 character_sheet_role_key, character_sheet_role)],
            titles |-> DictOf(rowsets["corporationTitles"].rows,
                              character_sheet_title_key, character_sheet_title)],
           r.timestamp, r.expires)

CharacterSheet ==
    /\ api_result.path = "char/CharacterSheet"
    /\ Return("character_sheet", character_sheet(api_result))

-----------------------------------------------------------------------------
(* Char.wallet_info and Char.wallet_balance *)

wallet_info(r) ==
    LET rowset == find_rowset(r.result) IN
    IF rowset = None THEN Raise
    ELSE IF Len(rowset[1].rows) = 0 THEN Raise
    ELSE LET row == SubSeq(rowset[1].rows, 1, 1) IN
    IF ~HasAttribs(row, {"balance", "accountID", "accountKey"}) THEN Raise
    ELSE IF ~FloatAttribs(row, {"balance"}) \/ ~IntAttribs(row, {"accountID", "accountKey"})
    THEN Raise
    ELSE APIResult([balance |-> float(row[1].attrib["balance"]),
                    id |-> int(row[1].attrib["accountID"]),
                    key |-> int(row[1].attrib["accountKey"])],
                   r.timestamp, r.expires)

\* wallet_balance handing on the expiry of the inner call as both timestamps
wallet_balance_expires(r) ==
    LET inner == wallet_info(r)
    IN IF inner = Raise THEN Raise
       ELSE APIResult(inner.result.balance, inner.expires, inner.expires)

\* self.wallet_info() makes the inner call, whose document is r
wallet_balance(r) ==
    LET inner == wallet_info(r)
    IN IF inner = Raise THEN Raise
       ELSE APIResult(inner.result.balance, inner.timestamp, inner.expires)

WalletInfo ==
    /\ api_result.path = "char/AccountBalance"
    /\ Return("wallet_info", wallet_info(api_result))

WalletBalance ==
    /\ api_result.path = "char/AccountBalance"
    /\ Return("wallet_balance", wallet_balance(api_result))

-----------------------------------------------------------------------------
(* Char.standings and Char.medals *)

standings_name_map == [agents |-> "agents", corps |-> "NPCCorporations", factions |-> "factions"]

standings_entry(row) ==
    [id |-> int(row.attrib["fromID"]),
     name |-> row.attrib["fromName"],
     standing |-> float(row.attrib["standing"])]

\* standings taking the first, second and third rowset for agents, corps
\* and factions
standings_by_position(r) ==
    IF "characterNPCStandings" \notin DOMAIN r.result.children THEN Raise
    ELSE LET rowsets == r.result.children["characterNPCStandings"].rowsets
             position == [agents |-> 1, corps |-> 2, factions |-> 3] IN
    IF Len(rowsets) < 3 THEN Raise
    ELSE IF \E i \in 1..3 : ~HasAttribs(rowsets[i].rows, {"fromID", "fromName", "standing"})
    THEN Raise
    ELSE IF \E i \in 1..3 : \/ ~IntAttribs(rowsets[i].rows, {"fromID"})
                            \/ ~FloatAttribs(rowsets[i].rows, {"standing"})
    THEN Raise
    ELSE APIResult([key \in DOMAIN standings_name_map |->
                       DictOf(rowsets[position[key]].rows,
                              LAMBDA row : int(row.attrib["fromID"]), standings_entry)],
                   r.timestamp, r.expires)

standings(r) ==
    IF "characterNPCStandings" \notin DOMAIN r.result.children THEN Raise
    ELSE LET rowsets == rowsets_by_name(r.result.children["characterNPCStandings"].rowsets) IN
    IF \E key \in DOMAIN standings_name_map :
           \/ standings_name_map[key] \notin DOMAIN rowsets
           \/ ~HasAttribs(rowsets[standings_name_map[key]].rows, {"fromID", "fromName", "standing"})
    THEN Raise
    ELSE IF \E key \in DOMAIN standings_name_map :
                \/ ~IntAttribs(rowsets[standings_name_map[key]].rows, {"fromID"})
                \/ ~FloatAttribs(rowsets[standings_name_map[key]].rows, {"standing"})
    THEN Raise
    ELSE APIResult([key \in DOMAIN standings_name_map |->
                       DictOf(rowsets[standings_name_map[key]].rows,
                              LAMBDA row : int(row.attrib["fromID"]), standings_entry)],
                   r.timestamp, r.expires)

Standings ==
    /\ api_result.path = "char/Standings"
    /\ Return("standings", standings(api_result))

medals_map == [currentCorporation |-> "current", otherCorporations |-> "other"]

medals_entry(row) ==
    LET a == row.attrib
    IN [id |-> int(a["medalID"]),
        reason |-> a["reason"],
        public |-> a["status"] = <<"public">>,
        issuer_id |-> int(a["issuerID"]),
        corp_id |-> int(a["corporationID"]),
        title |-> a["title"],
        description |-> a["description"]]

\* the result after the first n rowsets of the document
RECURSIVE medals_rowsets(_, _)
medals_rowsets(rowsets, n) ==
    IF n = 0 THEN [current |-> EmptyDict, other |-> EmptyDict]
    ELSE LET result == medals_rowsets(rowsets, n - 1)
             name == medals_map[rowsets[n].name]
             rows == DictOf(rowsets[n].rows, LAMBDA row : int(row.attrib["medalID"]), medals_entry)
         IN [result EXCEPT ![name] = rows @@ result[name]]

medals(r) ==
    LET rowsets == r.result.rowsets IN
    IF \E i \in 1..Len(rowsets) :
           \/ rowsets[i].name \notin DOMAIN medals_map
           \/ ~HasAttribs(rowsets[i].rows, {"medalID", "reason", "status", "issuerID",
                                            "corporationID", "title", "description"})
    THEN Raise
    ELSE IF \E i \in 1..Len(rowsets) :
                ~IntAttribs(rowsets[i].rows, {"medalID", "issuerID", "corporationID"})
    THEN Raise
    ELSE APIResult(medals_rowsets(rowsets, Len(rowsets)), r.timestamp, r.expires)

Medals ==
    /\ api_result.path = "char/Medals"
    /\ Return("medals", medals(api_result))

-----------------------------------------------------------------------------
(* The extractors of one rowset *)

\* the rows of the first rowset, once every row is known to have the
\* attributes and texts the extractor reads; None if a lookup or a
\* conversion raises
checked_rows(r, strs, ints, floats, tss) ==
    LET rowset == find_rowset(r.result) IN
    IF rowset = None THEN None
    ELSE LET rows == rowset[1].rows IN
    IF ~HasAttribs(rows, strs \cup ints \cup floats \cup tss) THEN None
    ELSE IF ~IntAttribs(rows, ints) \/ ~FloatAttribs(rows, floats) \/ ~TsAttribs(rows, tss)
    THEN None
    ELSE Just(rows)

research_entry(row) ==
    LET a == row.attrib
    IN [id |-> int(a["agentID"]),
        skill_id |-> int(a["skillTypeID"]),
        timestamp |-> parse_ts(a["researchStartDate"]),
        per_day |-> float(a["pointsPerDay"]),
        remaining |-> float(a["remainderPoints"])]

research(r) ==
    LET rows == checked_rows(r, {}, {"agentID", "skillTypeID"},
                             {"pointsPerDay", "remainderPoints"}, {"researchStartDate"})
    IN IF rows = None THEN Raise
       ELSE APIResult(DictOf(rows[1], LAMBDA row : int(row.attrib["agentID"]), research_entry),
                      r.timestamp, r.expires)

skill_queue_line(row) ==
    LET a == row.attrib
    IN [position |-> int(a["queuePosition"]),
        type_id |-> int(a["typeID"]),
        level |-> int(a["level"]),
        start_sp |-> int(a["startSP"]),
        end_sp |-> int(a["endSP"]),
        start_ts |-> parse_ts(a["startTime"]),
        end_ts |-> parse_ts(a["endTime"])]

\* skill_queue keeping one line per queue position, in the order of the positions
RECURSIVE skill_queue_sorted(_)
skill_queue_sorted(lines) ==
    IF lines = {} THEN <<>>
    ELSE LET first == CHOOSE l \in lines : \A m \in lines : l.position <= m.position
         IN <<first>> \o skill_queue_sorted({m \in lines : m.position # first.position})

skill_queue_by_position(r) ==
    LET rows == checked_rows(r, {}, {"queuePosition", "typeID", "level", "startSP", "endSP"},
                             {}, {"startTime", "endTime"})
    IN IF rows = None THEN Raise
       ELSE APIResult(skill_queue_sorted({skill_queue_line(rows[1][i]) : i \in 1..Len(rows[1])}),
                      r.timestamp, r.expires)

skill_queue(r) ==
    LET rows == checked_rows(r, {}, {"queuePosition", "typeID", "level", "startSP", "endSP"},
                             {}, {"startTime", "endTime"})
    IN IF rows = None THEN Raise
       ELSE APIResult(ListOf(rows[1], skill_queue_line), r.timestamp, r.expires)

\* `[int(i) for i in text.split(',')]`
int_list(text) == LET pieces == split(text, ",") IN [i \in 1..Len(pieces) |-> int(pieces[i])]
IsIntList(text) == \A piece \in {split(text, ",")[i] : i \in 1..Len(split(text, ","))} : IsIntText(piece)

\* messages converting the three recipients without the test for an empty text
messages_unguarded(row) ==
    LET a == row.attrib
    IN [id |-> int(a["messageID"]),
        sender_id |-> int(a["senderID"]),
        timestamp |-> parse_ts(a["sentDate"]),
        title |-> a["title"],
        to |-> [org_id |-> Just(int(a["toCorpOrAllianceID"])),
                char_ids |-> Just(int_list(a["toCharacterIDs"])),
                list_ids |-> Just(int_list(a["toListID"]))]]

messages_message(row) ==
    LET a == row.attrib
        org_id == a["toCorpOrAllianceID"]
        char_ids == a["toCharacterIDs"]
        list_ids == a["toListID"]
    IN [id |-> int(a["messageID"]),
        sender_id |-> int(a["senderID"]),
        timestamp |-> parse_ts(a["sentDate"]),
        title |-> a["title"],
        to |-> [org_id |-> IF org_id # <<>> THEN Just(int(org_id)) ELSE None,
                char_ids |-> IF char_ids # <<>> THEN Just(int_list(char_ids)) ELSE None,
                list_ids |-> IF list_ids # <<>> THEN Just(int_list(list_ids)) ELSE None]]

messages(r) ==
    LET rows == checked_rows(r, {"title", "toCorpOrAllianceID", "toCharacterIDs", "toListID"},
                             {"messageID", "senderID"}, {}, {"sentDate"})
    IN IF rows = None THEN Raise
       ELSE IF \E i \in 1..Len(rows[1]) :
                   LET a == rows[1][i].attrib
                   IN \/ a["toCorpOrAllianceID"] # <<>> /\ ~IsIntText(a["toCorpOrAllianceID"])
                      \/ a["toCharacterIDs"] # <<>> /\ ~IsIntList(a["toCharacterIDs"])
                      \/ a["toListID"] # <<>> /\ ~IsIntList(a["toListID"])
       THEN Raise
       ELSE APIResult(ListOf(rows[1], messages_message), r.timestamp, r.expires)

mailing_lists(r) ==
    LET rows == checked_rows(r, {"displayName"}, {"listID"}, {}, {})
    IN IF rows = None THEN Raise
       ELSE APIResult(DictOf(rows[1], LAMBDA row : int(row.attrib["listID"]),
                             LAMBDA row : row.attrib["displayName"]),
                      r.timestamp, r.expires)

contact_notifications_note(row) ==
    LET a == row.attrib
    IN [id |-> int(a["notificationID"]),
        sender |-> [id |-> int(a["senderID"]), name |-> a["senderName"]],
        timestamp |-> parse_ts(a["sentDate"]),
        data |-> parse_keyval_data(a["messageData"])]

contact_notifications(r) ==
    LET rows == checked_rows(r, {"senderName", "messageData"}, {"notificationID", "senderID"},
                             {}, {"sentDate"})
    IN IF rows = None THEN Raise
       ELSE APIResult(DictOf(rows[1], LAMBDA row : int(row.attrib["notificationID"]),
                             contact_notifications_note),
                      r.timestamp, r.expires)

locations_entry(row) ==
    LET a == row.attrib
    IN [name |-> IF a["itemName"] = <<>> THEN None ELSE Just(a["itemName"]),
        id |-> or_none(Just(int(a["itemID"]))),
        x |-> or_none(Just(float(a["x"]))),
        y |-> or_none(Just(float(a["y"]))),
        z |-> or_none(Just(float(a["z"])))]

\* the keys of the result are ints or None: a key is Just(id) or None
locations(location_list, r) ==
    LET rows == checked_rows(r, {"itemName"}, {"itemID"}, {"x", "y", "z"}, {})
    IN IF rows = None THEN Raise
       ELSE APIResult(DictOf(rows[1], LAMBDA row : or_none(Just(int(row.attrib["itemID"]))),
                             locations_entry),
                      r.timestamp, r.expires)

Research ==
    /\ api_result.path = "char/Research"
    /\ Return("research", research(api_result))

SkillQueue ==
    /\ api_result.path = "char/SkillQueue"
    /\ Return("skill_queue", skill_queue(api_result))

Messages ==
    /\ api_result.path = "char/MailMessages"
    /\ Return("messages", messages(api_result))

MailingLists ==
    /\ api_result.path = "char/MailingLists"
    /\ Return("mailing_lists", mailing_lists(api_result))

ContactNotifications ==
    /\ api_result.path = "char/ContactNotifications"
    /\ Return("contact_notifications", contact_notifications(api_result))

Locations ==
    /\ api_result.path = "char/Locations"
    /\ Return("locations", locations(args, api_result))

-----------------------------------------------------------------------------
(* Char.calendar_attendees and Char.event_attendees *)

\* event ids are given as ints (IntKey) or as strs (StrKey)
calendar_attendees_attendee(row) ==
    [id |-> int(row.attrib["characterID"]),
     name |-> row.attrib["characterName"],
     response |-> row.attrib["response"]]

\* results[int(a['eventID'])][attendee['id']] = attendee over the first n rows;
\* results is a defaultdict(dict)
RECURSIVE calendar_attendees_rows(_, _, _)
calendar_attendees_rows(results, rows, n) ==
    IF n = 0 THEN results
    ELSE LET before == calendar_attendees_rows(results, rows, n - 1)
             event == IntKey(int(rows[n].attrib["eventID"]))
             attendee == calendar_attendees_attendee(rows[n])
             old == IF event \in DOMAIN before THEN before[event] ELSE EmptyDict
         IN DictSet(before, event, DictSet(old, attendee.id, attendee))

\* calendar_attendees without the entries seeded from event_ids
calendar_attendees_unseeded(event_ids, r) ==
    LET rows == checked_rows(r, {"characterName", "response"}, {"characterID", "eventID"}, {}, {})
    IN IF rows = None THEN Raise
       ELSE APIResult(calendar_attendees_rows(EmptyDict, rows[1], Len(rows[1])),
                      r.timestamp, r.expires)

calendar_attendees(event_ids, r) ==
    LET rows == checked_rows(r, {"characterName", "response"}, {"characterID", "eventID"}, {}, {})
        results == [id_ \in {event_ids[i] : i \in 1..Len(event_ids)} |-> EmptyDict]
    IN IF rows = None THEN Raise
       ELSE APIResult(calendar_attendees_rows(results, rows[1], Len(rows[1])),
                      r.timestamp, r.expires)

\* int(event_id) of an id given as an int or as a str
key_is_int(k) == k.t = "int" \/ IsIntText(k.s)
key_int(k) == IF k.t = "int" THEN k.n ELSE int(k.s)

\* self.calendar_attendees([event_id]) makes the inner call, whose document is r
event_attendees(event_id, r) ==
    LET inner == calendar_attendees(<<event_id>>, r)
    IN IF inner = Raise THEN Raise
       ELSE IF ~key_is_int(event_id) THEN Raise
       ELSE IF IntKey(key_int(event_id)) \notin DOMAIN inner.result THEN Raise
       ELSE APIResult(inner.result[IntKey(key_int(event_id))], inner.timestamp, inner.expires)

CalendarAttendees ==
    /\ api_result.path = "char/CalendarEventAttendees"
    /\ Return("calendar_attendees", calendar_attendees(args, api_result))

EventAttendees ==
    /\ api_result.path = "char/CalendarEventAttendees"
    /\ Len(args) = 1
    /\ Return("event_attendees", event_attendees(args[1], api_result))

-----------------------------------------------------------------------------
(* Char.faction_warfare_stats and the methods that hand the document to a
   parser of evelink.parsing *)

faction_warfare_stats(r) ==
    LET e == r.result IN
    IF ~getters_ok(e, {"factionID", "currentRank", "highestRank", "killsYesterday",
                       "killsLastWeek", "killsTotal", "victoryPointsYesterday",
                       "victoryPointsLastWeek", "victoryPointsTotal"}, {}, {"enlisted"})
    THEN Raise
    ELSE APIResult([faction |-> [id |-> get_int_value(e, "factionID"),
                                 name |-> get_named_value(e, "factionName")],
                    enlist_ts |-> get_ts_value(e, "enlisted"),
                    rank |-> [current |-> get_int_value(e, "currentRank"),
                              highest |-> get_int_value(e, "highestRank")],
                    kills |-> [yesterday |-> get_int_value(e, "killsYesterday"),
                               week |-> get_int_value(e, "killsLastWeek"),
                               total |-> get_int_value(e, "killsTotal")],
                    points |-> [yesterday |-> get_int_value(e, "victoryPointsYesterday"),
                                week |-> get_int_value(e, "victoryPointsLastWeek"),
                                total |-> get_int_value(e, "victoryPointsTotal")]],
                   r.timestamp, r.expires)

FactionWarfareStats ==
    /\ api_result.path = "char/FacWarStats"
    /\ Return("faction_warfare_stats", faction_warfare_stats(api_result))

\* the methods whose body is api.APIResult(parse_x(api_result.result), ...),
\* with the endpoint of each
parsed_methods ==
    [contract_bids |-> "char/ContractBids", contract_items |-> "char/ContractItems",
     contracts |-> "char/Contracts", wallet_journal |-> "char/WalletJournal",
     wallet_transactions |-> "char/WalletTransactions", industry_jobs |-> "char/IndustryJobs",
     kills |-> "char/KillLog", contacts |-> "char/ContactList", orders |-> "char/MarketOrders"]

\* a parser of evelink.parsing, uninterpreted
parse_external(method, result) == [parsed_by |-> method, document |-> result]

parsed(method, r) == APIResult(parse_external(method, r.result), r.timestamp, r.expires)

Parsed ==
    \E method \in DOMAIN parsed_methods :
        /\ api_result.path = parsed_methods[method]
        /\ Return(method, parsed(method, api_result))

-----------------------------------------------------------------------------
(* Documents with a missing-ids element *)

\* all sequences over S of length lo..hi
SeqsOf(S, lo, hi) == UNION {[1..n -> S] : n \in lo..hi}

RECURSIVE join(_, _)
join(pieces, sep) ==
    IF Len(pieces) = 0 THEN <<>>
    ELSE IF Len(pieces) = 1 THEN pieces[1]
    ELSE pieces[1] \o <<sep>> \o join(Tail(pieces), sep)

NoAttribs == [k \in {} |-> <<>>]

\* id attributes: "1", "01", "2" and "x"
IdTexts == {<<"1">>, <<"0", "1">>, <<"2">>, <<"x">>}

\* lists of missing ids: "1", "01", "3", "1,3", "01,1", "3,2,1" and, with an
\* empty piece, "1,"
MissingLists ==
    {<<<<"1">>>>, <<<<"0", "1">>>>, <<<<"3">>>>, <<<<"1">>, <<"3">>>>,
     <<<<"0", "1">>, <<"1">>>>, <<<<"3">>, <<"2">>, <<"1">>>>, <<<<"1">>, <<>>>>}

\* rows with an id attribute, or without it
IdRows(attr) ==
    {Row(a, Just("Hi")) : a \in {attr :> t : t \in IdTexts} \cup {NoAttribs}}

\* the missing-ids element: absent, without text, or with the text of a list
MissingElems(tag) ==
    {NoAttribs, tag :> None} \cup {tag :> join(p, ",") : p \in MissingLists}

MissingResults(attr, tag) ==
    {Element(rs, m, NoChildren) :
        rs \in {<<>>} \cup {<<Rowset("messages", rows)>> : rows \in SeqsOf(IdRows(attr), 0, MaxRows)},
        m \in MissingElems(tag)}

MissingDocs ==
    {Document("char/MailBodies", e, 1000, 2000) :
        e \in MissingResults("messageID", "missingMessageIDs")} \cup
    {Document("char/NotificationTexts", e, 1000, 2000) :
        e \in MissingResults("notificationID", "missingIDs")}

\* the ids a document answers for, as the integers the caller asked for:
\* those of its rows, then those of its missing-ids element
RowIds(doc, attr) ==
    IF Len(doc.result.rowsets) = 0 THEN <<>>
    ELSE LET rows == doc.result.rowsets[1].rows
             ok == SelectSeq(rows, LAMBDA row : attr \in DOMAIN row.attrib /\ IsIntText(row.attrib[attr]))
         IN [i \in 1..Len(ok) |-> int(ok[i].attrib[attr])]

MissingIds(doc, tag) ==
    IF ~has(doc.result, tag) THEN <<>>
    ELSE LET ok == SelectSeq(split(doc.result.elems[tag], ","), IsIntText)
         IN [i \in 1..Len(ok) |-> int(ok[i])]

AnsweredIds(doc) ==
    IF doc.path = "char/MailBodies"
    THEN RowIds(doc, "messageID") \o MissingIds(doc, "missingMessageIDs")
    ELSE RowIds(doc, "notificationID") \o MissingIds(doc, "missingIDs")

InitMissing ==
    \E doc \in MissingDocs :
        /\ Start(1234, "api", doc)
        /\ args = AnsweredIds(doc)

NextMissing == MessageBodies \/ NotificationTexts

SpecMissing == InitMissing /\ [][NextMissing]_vars

-----------------------------------------------------------------------------
(* Char.assets and the recursive asset normalizer (evelink.parsing.assets) *)

\* an item element: its attributes and, for a container, its contents rowset
Item(attrib, rowsets) == [attrib |-> attrib, text |-> None, rowsets |-> rowsets]

\* a top-level location group: the location's id and its item elements
LocationGroup(locationID, rows) == [locationID |-> locationID, rows |-> rows]

ItemAttribs == {"itemID", "typeID", "quantity", "flag", "singleton"}

\* every item, at every depth, has its required attributes, all numeric
RECURSIVE items_ok(_)
items_ok(rows) ==
    \A i \in 1..Len(rows) :
        /\ ItemAttribs \subseteq DOMAIN rows[i].attrib
        /\ \A n \in DOMAIN rows[i].attrib \ {"singleton"} : IsIntText(rows[i].attrib[n])
        /\ Len(rows[i].rowsets) > 0 => items_ok(rows[i].rowsets[1].rows)

\* normalize_items with the recursive call handed the inherited id instead of
\* the item's resolved one
RECURSIVE normalize_items_inherited(_, _)
normalize_items_inherited(rows, parent_location_id) ==
    [i \in 1..Len(rows) |->
        LET a == rows[i].attrib
            location_id == IF "locationID" \in DOMAIN a THEN int(a["locationID"])
                           ELSE parent_location_id
            item == [id |-> int(a["itemID"]),
                     item_type_id |-> int(a["typeID"]),
                     quantity |-> int(a["quantity"]),
                     location_id |-> location_id,
                     location_flag |-> int(a["flag"]),
                     packaged |-> a["singleton"] # <<"1">>]
        IN IF Len(rows[i].rowsets) > 0
           THEN item @@ [contents |->
                    normalize_items_inherited(rows[i].rowsets[1].rows, parent_location_id)]
           ELSE item]

\* step 2 of the normalizer: a sequence of item elements under an inherited
\* parent_location_id
RECURSIVE normalize_items(_, _)
normalize_items(rows, parent_location_id) ==
    [i \in 1..Len(rows) |->
        LET a == rows[i].attrib
            location_id == IF "locationID" \in DOMAIN a THEN int(a["locationID"])
                           ELSE parent_location_id
            item == [id |-> int(a["itemID"]),
                     item_type_id |-> int(a["typeID"]),
                     quantity |-> int(a["quantity"]),
                     location_id |-> location_id,
                     location_flag |-> int(a["flag"]),
                     packaged |-> a["singleton"] # <<"1">>]
        IN IF Len(rows[i].rowsets) > 0
           THEN item @@ [contents |-> normalize_items(rows[i].rowsets[1].rows, location_id)]
           ELSE item]

\* step 1 of the normalizer: one container per top-level location group
parse_assets(result) ==
    LET groups == result.groups
        ids == {int(groups[g].locationID) : g \in 1..Len(groups)}
        group(id) == groups[CHOOSE g \in 1..Len(groups) :
                                /\ int(groups[g].locationID) = id
                                /\ \A h \in (g + 1)..Len(groups) : int(groups[h].locationID) # id]
    IN [id \in ids |-> [location_id |-> id,
                        contents |-> normalize_items(group(id).rows, id)]]

assets(r) ==
    IF \E g \in 1..Len(r.result.groups) :
           ~IsIntText(r.result.groups[g].locationID) \/ ~items_ok(r.result.groups[g].rows)
    THEN Raise
    ELSE APIResult(parse_assets(r.result), r.timestamp, r.expires)

Assets ==
    /\ api_result.path = "char/AssetList"
    /\ Return("assets", assets(api_result))

-----------------------------------------------------------------------------
(* Asset documents *)

\* locationID of an item: none of its own, "7" or "8"
ItemLocations == {None, Just(<<"7">>), Just(<<"8">>)}

ItemAttrib(itemID, loc) ==
    IF loc = None
    THEN [itemID |-> itemID, typeID |-> <<"3", "4">>, quantity |-> <<"5">>,
          flag |-> <<"0">>, singleton |-> <<"0">>]
    ELSE [itemID |-> itemID, typeID |-> <<"3", "4">>, quantity |-> <<"5">>,
          flag |-> <<"0">>, singleton |-> <<"0">>, locationID |-> loc[1]]

\* an item that is no container, and the second item of a rowset
Leaves(itemID) == {Item(ItemAttrib(itemID, loc), <<>>) : loc \in ItemLocations}
Siblings == {Item(ItemAttrib(<<"9">>, None), <<>>)}

\* item sequences: one item out of `items`, alone or before a sibling
ItemRows(items) == {<<c>> : c \in items} \cup {<<c, l>> : c \in items, l \in Siblings}

\* the items of nesting depth <= d
RECURSIVE Items(_)
Items(d) ==
    IF d <= 1 THEN Leaves(<<"1">>)
    ELSE LET rows == {<<>>} \cup ItemRows(Items(d - 1))
         IN Leaves(<<"1">>) \cup
            {Item(ItemAttrib(<<"1", "0">>, loc), <<Rowset("contents", r)>>) :
                loc \in ItemLocations, r \in rows}

AssetResults ==
    {[groups |-> <<LocationGroup(<<"5">>, rows)>> \o more] :
        rows \in ItemRows(Items(MaxDepth)),
        more \in {<<>>} \cup {<<LocationGroup(<<"6">>, <<l>>)>> : l \in Siblings}}

AssetDocs == {Document("char/AssetList", e, 1000, 2000) : e \in AssetResults}

InitAssets ==
    \E doc \in AssetDocs :
        /\ Start(1234, "api", doc)
        /\ args = <<>>

NextAssets == Assets

SpecAssets == InitAssets /\ [][NextAssets]_vars

-----------------------------------------------------------------------------
(* Documents with boolean-typed attributes *)

\* a row's attributes without one of them
Without(a, n) == [k \in DOMAIN a \ {n} |-> a[k]] @@ NoAttribs

\* a flag attribute: "1", "0", "", "11" and "true"
BoolTexts == {<<"1">>, <<"0">>, <<>>, <<"1", "1">>, <<"true">>}

Date1 == <<"2012-01-01 00:00:00">>
Date2 == <<"2012-06-15 12:30:00">>

NotificationAttrib(id, read) ==
    [notificationID |-> id, typeID |-> <<"1", "6">>, senderID |-> <<"7">>,
     sentDate |-> Date1, read |-> read]

CalendarEventAttrib(id, importance) ==
    [eventID |-> id, ownerID |-> <<"1">>, ownerName |-> <<"CCP">>, eventDate |-> Date2,
     eventTitle |-> <<"Fleet">>, duration |-> <<"6", "0">>, importance |-> importance,
     eventText |-> <<"Be there">>, response |-> <<"Undecided">>]

SkillAttrib(published) ==
    [typeID |-> <<"3", "3">>, skillpoints |-> <<"2", "5">>, level |-> <<"1">>,
     published |-> published]

\* the id of the i-th row of a generated rowset
IdOf == <<<<"1">>, <<"2">>, <<"3">>, <<"4">>>>

\* the rows of a rowset, each with a flag attribute of BoolTexts or without it
FlagRows(attrib(_, _), flag) ==
    LET flags == SeqsOf(BoolTexts \cup {<<"absent">>}, 0, MaxRows)
    IN {[i \in 1..Len(f) |->
            Row(IF f[i] = <<"absent">> THEN Without(attrib(IdOf[i], <<>>), flag)
                ELSE attrib(IdOf[i], f[i]), None)] @@ <<>> : f \in flags}

SkillAttribOf(id, published) == SkillAttrib(published)

\* a character sheet: its text elements, its enhancers and its rowsets
SheetElems(allianceID) ==
    [characterID |-> <<"1", "5", "0">>, name |-> <<"Alexis">>, DoB |-> Date1,
     race |-> <<"Minmatar">>, bloodLine |-> <<"Brutor">>, ancestry |-> <<"Slaves">>,
     gender |-> <<"Female">>, corporationID |-> <<"1", "0", "0">>,
     corporationName |-> <<"Corp">>, allianceID |-> allianceID,
     allianceName |-> <<>>, cloneName |-> <<"Clone Grade Pi">>,
     cloneSkillPoints |-> <<"5", "4">>, balance |-> <<"1", "9", "0">>]
    @@ ("attributes/intelligence" :> <<"6">>) @@ ("attributes/memory" :> <<"4">>)
    @@ ("attributes/charisma" :> <<"7">>) @@ ("attributes/perception" :> <<"1", "2">>)
    @@ ("attributes/willpower" :> <<"1", "0">>)

SheetEnhancers ==
    "attributeEnhancers/memoryBonus" :>
        Element(<<>>, [augmentatorName |-> <<"Memory Augmentation - Basic">>,
                       augmentatorValue |-> <<"3">>], NoChildren)

SheetRowsets(skills) ==
    <<Rowset("skills", skills),
      Rowset("certificates", <<Row([certificateID |-> <<"5">>], None)>>),
      Rowset("corporationRoles",
             <<Row([roleID |-> <<"1">>, roleName |-> <<"roleDirector">>], None)>>),
      Rowset("corporationRolesAtHQ", <<>>),
      Rowset("corporationRolesAtBase", <<>>),
      Rowset("corporationRolesAtOther", <<>>),
      Rowset("corporationTitles",
             <<Row([titleID |-> <<"1">>, titleName |-> <<"Member">>], None)>>)>>

Sheet(elems, skills) == Element(SheetRowsets(skills), elems, SheetEnhancers)

TrainingElems ==
    [trainingStartTime |-> Date1, trainingEndTime |-> Date2, trainingTypeID |-> <<"3", "3">>,
     trainingStartSP |-> <<"2", "5">>, trainingDestinationSP |-> <<"9", "0">>,
     currentTQTime |-> Date1, trainingToLevel |-> <<"2">>]

BoolDocs ==
    {Document("char/Notifications", Element(<<Rowset("notifications", rows)>>, NoAttribs, NoChildren),
              1000, 2000) :
        rows \in FlagRows(NotificationAttrib, "read")} \cup
    {Document("char/UpcomingCalendarEvents",
              Element(<<Rowset("upcomingEvents", rows)>>, NoAttribs, NoChildren), 1000, 2000) :
        rows \in FlagRows(CalendarEventAttrib, "importance")} \cup
    {Document("char/CharacterSheet", Sheet(SheetElems(<<"7">>), rows), 1000, 2000) :
        rows \in FlagRows(SkillAttribOf, "published")} \cup
    {Document("char/SkillInTraining", Element(<<>>, e, NoChildren), 1000, 2000) :
        e \in {TrainingElems} \cup {TrainingElems @@ ("skillInTraining" :> t) : t \in BoolTexts}}

InitBool ==
    \E doc \in BoolDocs :
        /\ Start(1234, "api", doc)
        /\ args = <<>>

NextBool == Notifications \/ CalendarEvents \/ CharacterSheet \/ CurrentTraining

SpecBool == InitBool /\ [][NextBool]_vars

-----------------------------------------------------------------------------
(* Documents of char/CalendarEventAttendees *)

\* eventID "1", "01" or "2"; characterID "7" or "8"; two names
AttendeeRows ==
    {Row([eventID |-> e, characterID |-> c, characterName |-> n, response |-> <<"Accepted">>],
         None) :
        e \in {<<"1">>, <<"0", "1">>, <<"2">>}, c \in {<<"7">>, <<"8">>},
        n \in {<<"Ann">>, <<"Bob">>}}

\* the event_ids of a call: ints, or strs
EventIdLists ==
    {<<>>, <<IntKey(1)>>, <<IntKey(3)>>, <<IntKey(2), IntKey(1)>>,
     <<StrKey(<<"1">>)>>, <<StrKey(<<"3">>)>>}

AttendeeDocs ==
    {Document("char/CalendarEventAttendees",
              Element(<<Rowset("eventAttendees", rows)>>, NoAttribs, NoChildren), 1000, 2000) :
        rows \in SeqsOf(AttendeeRows, 0, MaxRows)}

InitAttendees ==
    \E doc \in AttendeeDocs, event_ids \in EventIdLists :
        /\ Start(1234, "api", doc)
        /\ args = event_ids

NextAttendees == CalendarAttendees \/ EventAttendees

SpecAttendees == InitAttendees /\ [][NextAttendees]_vars

-----------------------------------------------------------------------------
(* Documents of char/MailMessages *)

\* toCorpOrAllianceID "", "5" or "x"; toCharacterIDs "", "7" or "08,7";
\* toListID "" or "3,4"
MessageRows ==
    {Row([messageID |-> <<"9">>, senderID |-> <<"7">>, sentDate |-> Date1,
          title |-> <<"Hello">>, toCorpOrAllianceID |-> o, toCharacterIDs |-> c,
          toListID |-> l], None) :
        o \in {<<>>, <<"5">>, <<"x">>},
        c \in {<<>>, <<"7">>, <<"0", "8", ",", "7">>},
        l \in {<<>>, <<"3", ",", "4">>}}

MessageDocs ==
    {Document("char/MailMessages",
              Element(<<Rowset("messages", rows)>>, NoAttribs, NoChildren), 1000, 2000) :
        rows \in SeqsOf(MessageRows, 0, MaxRows)}

InitMessages ==
    \E doc \in MessageDocs :
        /\ Start(1234, "api", doc)
        /\ args = <<>>

NextMessages == Messages

SpecMessages == InitMessages /\ [][NextMessages]_vars

-----------------------------------------------------------------------------
(* Documents of char/Locations and character sheets with a zero *)

\* itemID "0", "7" or "8"; x and z "0" or a positive number
LocationRows ==
    {Row([itemID |-> i, itemName |-> <<"Hangar">>, x |-> x, y |-> <<"4">>, z |-> z], None) :
        i \in {<<"0">>, <<"7">>, <<"8">>}, x \in {<<"0">>, <<"3">>}, z \in {<<"0">>, <<"5">>}}

ZeroDocs ==
    {Document("char/Locations", Element(<<Rowset("locations", rows)>>, NoAttribs, NoChildren),
              1000, 2000) :
        rows \in SeqsOf(LocationRows, 0, MaxRows)} \cup
    {Document("char/CharacterSheet", Sheet(SheetElems(a), <<>>), 1000, 2000) :
        a \in {<<"0">>, <<"7">>}}

InitZero ==
    \E doc \in ZeroDocs :
        /\ Start(1234, "api", doc)
        /\ args = <<>>

NextZero == Locations \/ CharacterSheet

SpecZero == InitZero /\ [][NextZero]_vars

-----------------------------------------------------------------------------
(* Documents whose rowset is absent or whose rows lack an attribute *)

\* a well-formed row of each rowset extractor
GoodRow ==
    [notifications |-> NotificationAttrib(<<"1">>, <<"1">>),
     calendar_events |-> CalendarEventAttrib(<<"1">>, <<"0">>),
     research |-> [agentID |-> <<"3">>, skillTypeID |-> <<"1", "1">>, pointsPerDay |-> <<"5">>,
                   remainderPoints |-> <<"3">>, researchStartDate |-> Date1],
     skill_queue |-> [queuePosition |-> <<"0">>, typeID |-> <<"3", "3">>, level |-> <<"2">>,
                      startSP |-> <<"2", "5">>, endSP |-> <<"9", "0">>,
                      startTime |-> Date1, endTime |-> Date2],
     messages |-> [messageID |-> <<"9">>, senderID |-> <<"7">>, sentDate |-> Date1,
                   title |-> <<"Hello">>, toCorpOrAllianceID |-> <<>>,
                   toCharacterIDs |-> <<"7">>, toListID |-> <<>>],
     mailing_lists |-> [listID |-> <<"3">>, displayName |-> <<"List">>],
     contact_notifications |-> [notificationID |-> <<"1">>, senderID |-> <<"7">>,
                                senderName |-> <<"Alexis">>, sentDate |-> Date1,
                                messageData |-> <<"level: 5">>],
     locations |-> [itemID |-> <<"7">>, itemName |-> <<"Hangar">>, x |-> <<"3">>,
                    y |-> <<"4">>, z |-> <<"5">>],
     wallet_info |-> [balance |-> <<"1", "9", "0">>, accountID |-> <<"1">>,
                      accountKey |-> <<"1", "0", "0", "0">>],
     medals |-> [medalID |-> <<"4">>, reason |-> <<"Valour">>, status |-> <<"public">>,
                 issuerID |-> <<"7">>, corporationID |-> <<"1", "0", "0">>,
                 title |-> <<"Medal">>, description |-> <<"For valour">>],
     standings |-> [fromID |-> <<"3">>, fromName |-> <<"Agent">>, standing |-> <<"2">>]]

\* the endpoint and the rowset of the extractors that read one rowset
RowsetOf ==
    [notifications |-> <<"char/Notifications", "notifications">>,
     calendar_events |-> <<"char/UpcomingCalendarEvents", "upcomingEvents">>,
     research |-> <<"char/Research", "research">>,
     skill_queue |-> <<"char/SkillQueue", "skillqueue">>,
     messages |-> <<"char/MailMessages", "messages">>,
     mailing_lists |-> <<"char/MailingLists", "mailingLists">>,
     contact_notifications |-> <<"char/ContactNotifications", "contactNotifications">>,
     locations |-> <<"char/Locations", "locations">>,
     wallet_info |-> <<"char/AccountBalance", "accounts">>]

\* up to MaxRows rows, each the good row or the good row less one attribute
RowsLacking(good) ==
    SeqsOf({Row(good, None)} \cup {Row(Without(good, n), None) : n \in DOMAIN good},
           0, MaxRows)

StandingsRowsets(rows) ==
    <<Rowset("agents", rows), Rowset("NPCCorporations", <<Row(GoodRow.standings, None)>>),
      Rowset("factions", <<>>)>>

StandingsDoc(children) ==
    Document("char/Standings", Element(<<>>, NoAttribs, children), 1000, 2000)

RowsetDocs ==
    UNION {{Document(RowsetOf[m][1], Element(rowsets, NoAttribs, NoChildren), 1000, 2000) :
                rowsets \in {<<>>} \cup {<<Rowset(RowsetOf[m][2], rows)>> :
                                            rows \in RowsLacking(GoodRow[m])}} :
           m \in DOMAIN RowsetOf} \cup
    {Document("char/Medals", Element(rowsets, NoAttribs, NoChildren), 1000, 2000) :
        rowsets \in {<<>>} \cup
            UNION {{<<Rowset("currentCorporation", rows)>>,
                    <<Rowset("currentCorporation", rows),
                      Rowset("otherCorporations", <<Row(GoodRow.medals, None)>>)>>} :
                   rows \in RowsLacking(GoodRow.medals)}} \cup
    {StandingsDoc(NoChildren)} \cup
    {StandingsDoc("characterNPCStandings" :> Element(rowsets, NoAttribs, NoChildren)) :
        rowsets \in {<<>>, SubSeq(StandingsRowsets(<<>>), 1, 2), Tail(StandingsRowsets(<<>>))}
                    \cup {StandingsRowsets(rows) : rows \in RowsLacking(GoodRow.standings)}}

InitRowset ==
    \E doc \in RowsetDocs :
        /\ Start(1234, "api", doc)
        /\ args = <<>>

NextRowset ==
    \/ Notifications
    \/ CalendarEvents
    \/ Research
    \/ SkillQueue
    \/ Messages
    \/ MailingLists
    \/ ContactNotifications
    \/ Locations
    \/ WalletInfo
    \/ Medals
    \/ Standings

SpecRowset == InitRowset /\ [][NextRowset]_vars

-----------------------------------------------------------------------------
(* Every operation, on documents generated and expiring at several times *)

Timestamps == {1000, 1500}
Expiries == {2000, 2500}

FacWarElems ==
    [factionID |-> <<"5">>, factionName |-> <<"Caldari State">>, enlisted |-> Date1,
     currentRank |-> <<"1">>, highestRank |-> <<"2">>, killsYesterday |-> <<"0">>,
     killsLastWeek |-> <<"3">>, killsTotal |-> <<"9">>, victoryPointsYesterday |-> <<"0">>,
     victoryPointsLastWeek |-> <<"4">>, victoryPointsTotal |-> <<"8">>]

\* the result element of one document of each endpoint, with its endpoint
EndpointResults ==
    UNION {{<<RowsetOf[m][1], Element(<<>>, NoAttribs, NoChildren)>>,
            <<RowsetOf[m][1],
              Element(<<Rowset(RowsetOf[m][2], <<Row(GoodRow[m], None)>>)>>,
                      NoAttribs, NoChildren)>>} : m \in DOMAIN RowsetOf} \cup
    {<<parsed_methods[m], Element(<<>>, NoAttribs, NoChildren)>> : m \in DOMAIN parsed_methods} \cup
    {<<"char/Medals",
       Element(<<Rowset("currentCorporation", <<Row(GoodRow.medals, None)>>)>>,
               NoAttribs, NoChildren)>>,
     <<"char/Standings",
       Element(<<>>, NoAttribs,
               "characterNPCStandings" :>
                   Element(StandingsRowsets(<<Row(GoodRow.standings, None)>>),
                           NoAttribs, NoChildren))>>,
     <<"char/CharacterSheet", Sheet(SheetElems(<<"7">>), <<Row(SkillAttrib(<<"1">>), None)>>)>>,
     <<"char/SkillInTraining",
       Element(<<>>, TrainingElems @@ ("skillInTraining" :> <<"1">>), NoChildren)>>,
     <<"char/MailBodies",
       Element(<<Rowset("messages", <<Row("messageID" :> <<"1">>, Just("Hi"))>>)>>,
               "missingMessageIDs" :> <<"3">>, NoChildren)>>,
     <<"char/NotificationTexts",
       Element(<<Rowset("notifications", <<Row("notificationID" :> <<"1">>, Just("Hi"))>>)>>,
               NoAttribs, NoChildren)>>,
     <<"char/CalendarEventAttendees",
       Element(<<Rowset("eventAttendees",
                        <<Row([eventID |-> <<"1">>, characterID |-> <<"7">>,
                               characterName |-> <<"Ann">>, response |-> <<"Accepted">>],
                              None)>>)>>,
               NoAttribs, NoChildren)>>,
     <<"char/FacWarStats", Element(<<>>, FacWarElems, NoChildren)>>,
     <<"char/FacWarStats", Element(<<>>, NoAttribs, NoChildren)>>,
     <<"char/AssetList",
       [groups |-> <<LocationGroup(<<"5">>, <<Item(ItemAttrib(<<"1">>, None), <<>>)>>)>>]>>}

\* the arguments of the call that fetched the document
ArgsOf(doc) ==
    IF doc.path \in {"char/MailBodies", "char/NotificationTexts"} THEN AnsweredIds(doc)
    ELSE IF doc.path = "char/CalendarEventAttendees" THEN <<IntKey(1)>>
    ELSE <<>>

Init ==
    \E e \in EndpointResults, timestamp \in Timestamps, expires \in Expiries :
        LET doc == Document(e[1], e[2], timestamp, expires)
        IN /\ Start(1234, "api", doc)
           /\ args = ArgsOf(doc)

Next ==
    \/ Assets
    \/ Parsed
    \/ WalletInfo
    \/ WalletBalance
    \/ Notifications
    \/ NotificationTexts
    \/ Standings
    \/ CharacterSheet
    \/ Research
    \/ CurrentTraining
    \/ SkillQueue
    \/ Messages
    \/ MessageBodies
    \/ MailingLists
    \/ CalendarEvents
    \/ CalendarAttendees
    \/ EventAttendees
    \/ FactionWarfareStats
    \/ Medals
    \/ ContactNotifications
    \/ Locations

Spec == Init /\ [][Next]_vars

-----------------------------------------------------------------------------
(* Documents of char/SkillQueue and char/MailMessages whose rows repeat ids *)

\* queuePosition "0" or "1", typeID "33" or "34", level "1" or "2"
QueueRows ==
    {Row([queuePosition |-> q, typeID |-> t, level |-> l, startSP |-> <<"2", "5">>,
          endSP |-> <<"9", "0">>, startTime |-> Date1, endTime |-> Date2], None) :
        q \in {<<"0">>, <<"1">>}, t \in {<<"3", "3">>, <<"3", "4">>}, l \in {<<"1">>, <<"2">>}}

\* messageID "8" or "9", title "Hello" or "Bye", toCharacterIDs "" or "7"
HeaderRows ==
    {Row([messageID |-> m, senderID |-> <<"7">>, sentDate |-> Date1, title |-> t,
          toCorpOrAllianceID |-> <<>>, toCharacterIDs |-> c, toListID |-> <<>>], None) :
        m \in {<<"8">>, <<"9">>}, t \in {<<"Hello">>, <<"Bye">>}, c \in {<<>>, <<"7">>}}

OrderDocs ==
    {Document("char/SkillQueue", Element(<<Rowset("skillqueue", rows)>>, NoAttribs, NoChildren),
              1000, 2000) : rows \in SeqsOf(QueueRows, 0, MaxRows)} \cup
    {Document("char/MailMessages", Element(<<Rowset("messages", rows)>>, NoAttribs, NoChildren),
              1000, 2000) : rows \in SeqsOf(HeaderRows, 0, MaxRows)}

InitOrder ==
    \E doc \in OrderDocs :
        /\ Start(1234, "api", doc)
        /\ args = <<>>

NextOrder == SkillQueue \/ Messages

SpecOrder == InitOrder /\ [][NextOrder]_vars

-----------------------------------------------------------------------------
(* Documents with sibling rowsets in every order *)

\* the permutations of a sequence
Permuted(seq) ==
    {[i \in 1..Len(seq) |-> seq[p[i]]] @@ <<>> :
        p \in {q \in [1..Len(seq) -> 1..Len(seq)] :
                  \A i, j \in 1..Len(seq) : q[i] = q[j] => i = j}}

StandingRow(fromID, fromName) ==
    Row([fromID |-> fromID, fromName |-> fromName, standing |-> <<"2">>], None)

MedalRow(medalID, title) == Row([GoodRow.medals EXCEPT !.medalID = medalID, !.title = title], None)

\* the three rowsets of char/Standings: agents 3 and 4, corporations 5 and 3,
\* faction 6
StandingsSiblings ==
    {<<Rowset("agents", agents), Rowset("NPCCorporations", corps), Rowset("factions", factions)>> :
        agents \in SeqsOf({StandingRow(<<"3">>, <<"Agent">>), StandingRow(<<"4">>, <<"Spy">>)},
                          0, MaxRows),
        corps \in {<<>>, <<StandingRow(<<"5">>, <<"Corp">>)>>, <<StandingRow(<<"3">>, <<"Firm">>)>>},
        factions \in {<<>>, <<StandingRow(<<"6">>, <<"State">>)>>}}

\* the rowsets of char/Medals: both, one or none
MedalsSiblings ==
    UNION {{<<Rowset("currentCorporation", current), Rowset("otherCorporations", other)>>,
            <<Rowset("currentCorporation", current)>>,
            <<Rowset("otherCorporations", other)>>, <<>>} :
        current \in SeqsOf({MedalRow(<<"4">>, <<"Medal">>), MedalRow(<<"5">>, <<"Star">>)},
                           0, MaxRows),
        other \in {<<>>, <<MedalRow(<<"6">>, <<"Cross">>)>>, <<MedalRow(<<"4">>, <<"Old">>)>>}}

DispatchDocs ==
    {StandingsDoc("characterNPCStandings" :> Element(rowsets, NoAttribs, NoChildren)) :
        rowsets \in UNION {Permuted(rs) : rs \in StandingsSiblings}} \cup
    {Document("char/Medals", Element(rowsets, NoAttribs, NoChildren), 1000, 2000) :
        rowsets \in UNION {Permuted(rs) : rs \in MedalsSiblings}}

InitDispatch ==
    \E doc \in DispatchDocs :
        /\ Start(1234, "api", doc)
        /\ args = <<>>

NextDispatch == Standings \/ Medals

SpecDispatch == InitDispatch /\ [][NextDispatch]_vars

-----------------------------------------------------------------------------
(* Claims on the missing-ids side channel *)

Range(seq) == {seq[i] : i \in 1..Len(seq)}

MissingTag == IF op = "message_bodies" THEN "missingMessageIDs" ELSE "missingIDs"

\* the missing-ids element, if any, lists ids and nothing else
MissingListsIds ==
    has(api_result.result, MissingTag) =>
        \A p \in Range(split(api_result.result.elems[MissingTag], ",")) : IsIntText(p)

\* C1: in the result of message_bodies and of notification_texts the key set
\* is exactly the set of the ids of the rows and of the ids the missing-ids
\* element lists, and every id listed as missing maps to None.
C1_KeySetIsUnion ==
    (op \in {"message_bodies", "notification_texts"} /\ ret.kind = "ok"
        /\ MissingListsIds) =>
        /\ DOMAIN ret.result = {IntKey(id) : id \in Range(args)}
        /\ \A id \in Range(MissingIds(api_result, MissingTag)) :
               /\ IntKey(id) \in DOMAIN ret.result
               /\ ret.result[IntKey(id)] = None

\* the part of C1 about message_bodies alone
MessageBodiesKeySetIsUnion ==
    (op = "message_bodies" /\ ret.kind = "ok") =>
        /\ DOMAIN ret.result = {IntKey(id) : id \in Range(args)}
        /\ \A id \in Range(MissingIds(api_result, MissingTag)) :
               ret.result[IntKey(id)] = None

\* C2: every key of the result of notification_texts is an integer id, and
\* looking the result up by a requested integer id finds an entry: None for
\* an id listed as missing, a dict otherwise.
C2_RequestedIdsFound ==
    (op = "notification_texts" /\ ret.kind = "ok" /\ MissingListsIds) =>
        /\ \A k \in DOMAIN ret.result : k.t = "int"
        /\ \A id \in Range(args) :
               /\ IntKey(id) \in DOMAIN ret.result
               /\ (id \in Range(MissingIds(api_result, "missingIDs")))
                      <=> (ret.result[IntKey(id)] = None)

-----------------------------------------------------------------------------
(* Claims on the asset tree *)

ContentsOf(row) == IF Len(row.rowsets) > 0 THEN row.rowsets[1].rows ELSE <<>>

\* the positions of the items of a tree of item elements, as index paths
RECURSIVE PathsOf(_)
PathsOf(rows) ==
    UNION {{<<i>>} \cup {<<i>> \o p : p \in PathsOf(ContentsOf(rows[i]))} : i \in 1..Len(rows)}

RECURSIVE InNode(_, _)
InNode(rows, p) ==
    IF Len(p) = 1 THEN rows[p[1]] ELSE InNode(ContentsOf(rows[p[1]]), Tail(p))

\* the normalized item at a position, None if the result has none there
RECURSIVE OutNode(_, _)
OutNode(items, p) ==
    IF p[1] > Len(items) THEN None
    ELSE IF Len(p) = 1 THEN Just(items[p[1]])
    ELSE IF "contents" \notin DOMAIN items[p[1]] THEN None
    ELSE OutNode(items[p[1]].contents, Tail(p))

\* the location id of the nearest of the item and its ancestors that carries
\* one, the top-level location group being the outermost ancestor
NearestLocation(group, p) ==
    LET own == {j \in 1..Len(p) :
                    "locationID" \in DOMAIN InNode(group.rows, SubSeq(p, 1, j)).attrib}
    IN IF own = {} THEN int(group.locationID)
       ELSE LET j == CHOOSE k \in own : \A m \in own : m <= k
            IN int(InNode(group.rows, SubSeq(p, 1, j)).attrib["locationID"])

\* C3: every item of the result of assets, at every depth, has the location_id
\* of the nearest of itself and its ancestors that carries a location id; so
\* in a tree where only the top-level group carries one, every item has it.
C3_LocationInherited ==
    (op = "assets" /\ ret.kind = "ok") =>
        \A g \in 1..Len(api_result.result.groups) :
            LET group == api_result.result.groups[g]
                out == ret.result[int(group.locationID)].contents
            IN \A p \in PathsOf(group.rows) :
                   /\ OutNode(out, p) # None
                   /\ OutNode(out, p)[1].location_id = NearestLocation(group, p)

\* a tree of depth 3 in which only the location group carries an id, normalized
C3_Witness ==
    /\ op = "assets"
    /\ ret.kind = "ok"
    /\ LET group == api_result.result.groups[1]
       IN /\ \E p \in PathsOf(group.rows) : Len(p) >= 3
          /\ \A p \in PathsOf(group.rows) :
                 /\ "locationID" \notin DOMAIN InNode(group.rows, p).attrib
                 /\ OutNode(ret.result[5].contents, p)[1].location_id = 5

-----------------------------------------------------------------------------
(* Claims on boolean coercion *)

\* the rows the last call read its flags from, the flag attribute, and the
\* boolean the result holds for the i-th of those rows
FlagSource ==
    IF op = "character_sheet" THEN rowsets_by_name(api_result.result.rowsets)["skills"].rows
    ELSE api_result.result.rowsets[1].rows

FlagName ==
    IF op = "notifications" THEN "read"
    ELSE IF op = "calendar_events" THEN "importance" ELSE "published"

FlagResult(i) ==
    IF op = "notifications" THEN ret.result[int(IdOf[i])].read
    ELSE IF op = "calendar_events" THEN ret.result[int(IdOf[i])].important
    ELSE ret.result.skills[i].published

IsOne(a, n) == n \in DOMAIN a /\ a[n] = <<"1">>

\* C4 as stated: in notifications 'read', character_sheet 'published',
\* calendar_events 'important' and current_training 'active', the attribute
\* value "1" gives true and any other value, an absent attribute included,
\* gives false.
C4_AbsentIsFalse ==
    /\ op \in {"notifications", "calendar_events", "character_sheet"} =>
           /\ ret.kind = "ok"
           /\ \A i \in 1..Len(FlagSource) :
                  FlagResult(i) = IsOne(FlagSource[i].attrib, FlagName)
    /\ op = "current_training" =>
           /\ ret.kind = "ok"
           /\ ret.result.active = IsOne(api_result.result.elems, "skillInTraining")

\* C4 amended: "1" gives true and any other value of a present attribute
\* gives false; a row without the attribute makes notifications,
\* character_sheet and calendar_events raise, and only current_training's
\* 'active' is false for an absent element.
C4_BoolCoercion ==
    /\ op \in {"notifications", "calendar_events", "character_sheet"} =>
           IF HasAttribs(FlagSource, {FlagName})
           THEN /\ ret.kind = "ok"
                /\ \A i \in 1..Len(FlagSource) :
                       FlagResult(i) = (FlagSource[i].attrib[FlagName] = <<"1">>)
           ELSE ret = Raise
    /\ op = "current_training" =>
           /\ ret.kind = "ok"
           /\ ret.result.active = IsOne(api_result.result.elems, "skillInTraining")

\* notifications has normalized a row with read="1" and a row with read="11"
C4_Witness ==
    /\ op = "notifications"
    /\ ret.kind = "ok"
    /\ Len(FlagSource) = 2
    /\ FlagSource[1].attrib["read"] = <<"1">> /\ ret.result[1].read = TRUE
    /\ FlagSource[2].attrib["read"] = <<"1", "1">> /\ ret.result[2].read = FALSE

-----------------------------------------------------------------------------
(* Claims on calendar_attendees *)

AttendeeSource == api_result.result.rowsets[1].rows

\* the row names the event with this requested id
NamesEvent(row, k) == key_is_int(k) /\ int(row.attrib["eventID"]) = key_int(k)

\* the last row for the event and character of row i
LastLike(rows, i) ==
    CHOOSE j \in 1..Len(rows) :
        /\ int(rows[j].attrib["eventID"]) = int(rows[i].attrib["eventID"])
        /\ int(rows[j].attrib["characterID"]) = int(rows[i].attrib["characterID"])
        /\ \A m \in (j + 1)..Len(rows) :
               \/ int(rows[m].attrib["eventID"]) # int(rows[i].attrib["eventID"])
               \/ int(rows[m].attrib["characterID"]) # int(rows[i].attrib["characterID"])

\* C7: the result of calendar_attendees(event_ids) is keyed by event id and
\* then by attendee character id: every id of event_ids is a key, mapping to
\* an empty dict when no row names that event, and every row is found at
\* result[eventID][characterID], 'id' being characterID (of two rows for one
\* event and character the later one is kept).
C7_TwoLevelMapping ==
    (op = "calendar_attendees" /\ ret.kind = "ok") =>
        LET rows == AttendeeSource IN
        /\ DOMAIN ret.result =
               Range(args) \cup {IntKey(int(rows[i].attrib["eventID"])) : i \in 1..Len(rows)}
        /\ \A k \in Range(args) :
               (\A i \in 1..Len(rows) : ~NamesEvent(rows[i], k)) => ret.result[k] = EmptyDict
        /\ \A i \in 1..Len(rows) :
               LET event == IntKey(int(rows[i].attrib["eventID"]))
                   character == int(rows[i].attrib["characterID"])
                   last == rows[LastLike(rows, i)]
               IN /\ character \in DOMAIN ret.result[event]
                  /\ ret.result[event][character] =
                         [id |-> character, name |-> last.attrib["characterName"],
                          response |-> last.attrib["response"]]

\* calendar_attendees([2, 1]) on a document with a row for event 1 only
C7_Witness ==
    /\ op = "calendar_attendees"
    /\ ret.kind = "ok"
    /\ args = <<IntKey(2), IntKey(1)>>
    /\ Len(AttendeeSource) = 1
    /\ ret.result[IntKey(2)] = EmptyDict
    /\ DOMAIN ret.result[IntKey(1)] = {7}
    /\ ret.result[IntKey(1)][7].id = 7

-----------------------------------------------------------------------------
(* Claims on the recipients of a message *)

\* what the recipient attributes of the documents stand for
RecipientValue ==
    (<<>> :> None) @@ (<<"5">> :> Just(5)) @@ (<<"7">> :> Just(<<7>>)) @@
    (<<"0", "8", ",", "7">> :> Just(<<8, 7>>)) @@ (<<"3", ",", "4">> :> Just(<<3, 4>>))

\* C8: in messages an empty toCorpOrAllianceID, toCharacterIDs or toListID
\* gives None for 'org_id', 'char_ids' or 'list_ids' and no parse error; a
\* numeric value gives the integer, a comma-separated one the list of its
\* integers in order.
C8_EmptyIsNone ==
    (op = "messages"
        /\ \A i \in 1..Len(api_result.result.rowsets[1].rows) :
               api_result.result.rowsets[1].rows[i].attrib["toCorpOrAllianceID"] # <<"x">>) =>
        /\ ret.kind = "ok"
        /\ Len(ret.result) = Len(api_result.result.rowsets[1].rows)
        /\ \A i \in 1..Len(ret.result) :
               LET a == api_result.result.rowsets[1].rows[i].attrib
               IN /\ ret.result[i].to.org_id = RecipientValue[a["toCorpOrAllianceID"]]
                  /\ ret.result[i].to.char_ids = RecipientValue[a["toCharacterIDs"]]
                  /\ ret.result[i].to.list_ids = RecipientValue[a["toListID"]]

\* a message with an empty toCorpOrAllianceID and toListID, sent to "08,7"
C8_Witness ==
    /\ op = "messages"
    /\ ret.kind = "ok"
    /\ Len(ret.result) >= 1
    /\ api_result.result.rowsets[1].rows[1].attrib["toCorpOrAllianceID"] = <<>>
    /\ api_result.result.rowsets[1].rows[1].attrib["toListID"] = <<>>
    /\ ret.result[1].to = [org_id |-> None, char_ids |-> Just(<<8, 7>>), list_ids |-> None]

-----------------------------------------------------------------------------
(* Claims on numeric attributes that are zero *)

\* C9: a numeric attribute that is literally zero is a value, not a missing
\* one: a locations row is keyed by the integer of its itemID and its 'id',
\* 'x', 'y', 'z' are the numbers of its attributes, 0 included, and the
\* alliance id of a character sheet with allianceID 0 is 0.
C9_ZeroIsValid ==
    /\ (op = "locations" /\ ret.kind = "ok") =>
           \A i \in 1..Len(api_result.result.rowsets[1].rows) :
               LET a == api_result.result.rowsets[1].rows[i].attrib
                   id == Just(int(a["itemID"]))
               IN /\ id \in DOMAIN ret.result
                  /\ ret.result[id].id = id
                  /\ (\A j \in (i + 1)..Len(api_result.result.rowsets[1].rows) :
                          api_result.result.rowsets[1].rows[j].attrib["itemID"] # a["itemID"]) =>
                         /\ ret.result[id].x = Just(float(a["x"]))
                         /\ ret.result[id].y = Just(float(a["y"]))
                         /\ ret.result[id].z = Just(float(a["z"]))
    /\ (op = "character_sheet" /\ ret.kind = "ok") =>
           ret.result.alliance.id = Just(int(api_result.result.elems["allianceID"]))

-----------------------------------------------------------------------------
(* Claims on malformed documents *)

\* the rowsets an extractor looks for in the document
RowsetsRead ==
    IF api_result.path # "char/Standings" THEN api_result.result.rowsets
    ELSE IF "characterNPCStandings" \in DOMAIN api_result.result.children
         THEN api_result.result.children["characterNPCStandings"].rowsets
         ELSE <<>>

\* the attributes an extractor reads from every row
RequiredOf(o) == DOMAIN GoodRow[o]

\* the expected rowset is absent, or a row lacks a required attribute
Malformed ==
    \/ Len(RowsetsRead) = 0
    \/ op = "standings" /\ {RowsetsRead[i].name : i \in 1..Len(RowsetsRead)}
                               # {"agents", "NPCCorporations", "factions"}
    \/ \E i \in 1..Len(RowsetsRead) : \E j \in 1..Len(RowsetsRead[i].rows) :
           ~(RequiredOf(op) \subseteq DOMAIN RowsetsRead[i].rows[j].attrib)
                /\ (op = "wallet_info" => j = 1)

\* C6: a rowset extractor handed a document without the expected rowset, or
\* with a row lacking a required attribute, fails and returns no envelope.
C6_MalformedFails ==
    (op \in DOMAIN GoodRow /\ Malformed) => ret = Raise

\* every rowset extractor but medals fails on such a document
MalformedFailsExceptMedals ==
    (op \in DOMAIN GoodRow \ {"medals"} /\ Malformed) => ret = Raise

\* medals fails when a row lacks an attribute, and on a well-formed document
\* every rowset extractor returns an envelope (wallet_info needs a row)
MedalsRowFailsAndWellFormedReturns ==
    /\ (op = "medals" /\ Malformed /\ Len(RowsetsRead) > 0) => ret = Raise
    /\ (op \in DOMAIN GoodRow /\ ~Malformed
           /\ (op = "wallet_info" => Len(RowsetsRead[1].rows) > 0)) => ret.kind = "ok"

-----------------------------------------------------------------------------
(* Claims on the envelope and on repeated calls *)

\* C5: the envelope every operation returns carries exactly the timestamp
\* and the expires value of the document of the transport layer; the wrappers
\* wallet_balance and event_attendees hand on those of their inner call.
C5_TimestampsPassThrough ==
    ret.kind = "ok" =>
        /\ ret.timestamp = api_result.timestamp
        /\ ret.expires = api_result.expires

\* wallet_balance has returned the balance of a document generated at 1500
\* and expiring at 2000
C5_Witness ==
    /\ op = "wallet_balance"
    /\ ret.kind = "ok"
    /\ ret.result = 190
    /\ api_result.timestamp = 1500
    /\ api_result.expires = 2000

-----------------------------------------------------------------------------
(* Claims on the order of a sequence result *)

\* the numbers the attributes of the documents stand for
NumberOf ==
    (<<"0">> :> 0) @@ (<<"1">> :> 1) @@ (<<"2">> :> 2) @@ (<<"7">> :> 7) @@ (<<"8">> :> 8) @@
    (<<"9">> :> 9) @@ (<<"3", "3">> :> 33) @@ (<<"3", "4">> :> 34) @@
    (<<"3">> :> 3) @@ (<<"4">> :> 4) @@ (<<"5">> :> 5) @@ (<<"6">> :> 6)

\* C11: skill_queue and messages return a sequence with one entry per row of
\* the rowset, the i-th entry built from the i-th row, also when rows share a
\* queue position or a message id.
C11_RowOrderKept ==
    LET rows == api_result.result.rowsets[1].rows IN
    /\ (op = "skill_queue") =>
           /\ ret.kind = "ok"
           /\ Len(ret.result) = Len(rows)
           /\ \A i \in 1..Len(rows) :
                  /\ ret.result[i].position = NumberOf[rows[i].attrib["queuePosition"]]
                  /\ ret.result[i].type_id = NumberOf[rows[i].attrib["typeID"]]
                  /\ ret.result[i].level = NumberOf[rows[i].attrib["level"]]
    /\ (op = "messages") =>
           /\ ret.kind = "ok"
           /\ Len(ret.result) = Len(rows)
           /\ \A i \in 1..Len(rows) :
                  /\ ret.result[i].id = NumberOf[rows[i].attrib["messageID"]]
                  /\ ret.result[i].title = rows[i].attrib["title"]
                  /\ ret.result[i].to.char_ids =
                         IF rows[i].attrib["toCharacterIDs"] = <<>> THEN None
                         ELSE Just(<<NumberOf[rows[i].attrib["toCharacterIDs"]]>>)

\* a skill queue of two rows at the same position, the later one first in
\* type order, returned as two entries in document order
C11_Witness ==
    /\ op = "skill_queue"
    /\ ret.kind = "ok"
    /\ Len(ret.result) = 2
    /\ ret.result[1].position = 1
    /\ ret.result[2].position = 1
    /\ ret.result[1].type_id = 34
    /\ ret.result[2].type_id = 33

-----------------------------------------------------------------------------
(* Claims on event_attendees *)

\* the attendees of the rows that name the requested event, the later of two
\* rows for one character kept
AttendeesOf(rows, k) ==
    LET named == SelectSeq(rows, LAMBDA row : NamesEvent(row, k))
    IN [c \in {int(named[i].attrib["characterID"]) : i \in 1..Len(named)} |->
           LET last == named[CHOOSE j \in 1..Len(named) :
                                 /\ int(named[j].attrib["characterID"]) = c
                                 /\ \A m \in (j + 1)..Len(named) :
                                        int(named[m].attrib["characterID"]) # c]
           IN [id |-> c, name |-> last.attrib["characterName"],
               response |-> last.attrib["response"]]]

\* C12: event_attendees(event_id), the id given as an integer or as its
\* string form, returns the attendees of that event, the empty mapping when
\* no row names the event, and never fails.
C12_EventAttendeesOfEvent ==
    (op = "event_attendees" /\ key_is_int(args[1])) =>
        /\ ret.kind = "ok"
        /\ ret.result = AttendeesOf(AttendeeSource, args[1])

\* the same holds of an id given as an integer, and of an id given as a
\* string when some row names the event
EventAttendeesOfIntOrNamedEvent ==
    (op = "event_attendees" /\ key_is_int(args[1])
        /\ (args[1].t = "int" \/ \E i \in 1..Len(AttendeeSource) :
                                     NamesEvent(AttendeeSource[i], args[1]))) =>
        /\ ret.kind = "ok"
        /\ ret.result = AttendeesOf(AttendeeSource, args[1])

-----------------------------------------------------------------------------
(* Claims on sibling rowsets *)

\* the rows of the rowset of this name, wherever it stands; none if absent
RowsNamed(name) ==
    IF \E i \in 1..Len(RowsetsRead) : RowsetsRead[i].name = name
    THEN RowsetsRead[CHOOSE i \in 1..Len(RowsetsRead) : RowsetsRead[i].name = name].rows
    ELSE <<>>

\* the mapping holds one entry per id of the rows, keyed by its own 'id', and
\* the entry of a row that no later row repeats carries the row's text
KeyedByOwnId(mapping, rows, idattr, textattr, field) ==
    /\ DOMAIN mapping = {NumberOf[rows[i].attrib[idattr]] : i \in 1..Len(rows)}
    /\ \A i \in 1..Len(rows) :
           LET id == NumberOf[rows[i].attrib[idattr]]
           IN /\ mapping[id].id = id
              /\ (\A j \in (i + 1)..Len(rows) : rows[j].attrib[idattr] # rows[i].attrib[idattr])
                     => mapping[id][field] = rows[i].attrib[textattr]

\* the document of the call with its rowsets in another order
Reordered ==
    IF api_result.path = "char/Standings"
    THEN {[api_result EXCEPT !.result.children["characterNPCStandings"].rowsets = rs] :
             rs \in Permuted(RowsetsRead)}
    ELSE {[api_result EXCEPT !.result.rowsets = rs] : rs \in Permuted(RowsetsRead)}

\* C13: sibling rowsets are told apart by name: standings has exactly the
\* keys agents, corps, factions, filled from the rowsets named agents,
\* NPCCorporations, factions; medals has exactly the keys current and other,
\* filled from currentCorporation and otherCorporations; every entry is
\* keyed by its own id, and the rowsets in any other order give the same
\* result.
C13_DispatchByName ==
    /\ (op = "standings") =>
           /\ ret.kind = "ok"
           /\ DOMAIN ret.result = {"agents", "corps", "factions"}
           /\ KeyedByOwnId(ret.result.agents, RowsNamed("agents"), "fromID", "fromName", "name")
           /\ KeyedByOwnId(ret.result.corps, RowsNamed("NPCCorporations"), "fromID", "fromName", "name")
           /\ KeyedByOwnId(ret.result.factions, RowsNamed("factions"), "fromID", "fromName", "name")
           /\ \A doc \in Reordered : standings(doc) = ret
    /\ (op = "medals") =>
           /\ ret.kind = "ok"
           /\ DOMAIN ret.result = {"current", "other"}
           /\ KeyedByOwnId(ret.result.current, RowsNamed("currentCorporation"),
                           "medalID", "title", "title")
           /\ KeyedByOwnId(ret.result.other, RowsNamed("otherCorporations"),
                           "medalID", "title", "title")
           /\ \A doc \in Reordered : medals(doc) = ret

\* standings on a document whose rowsets come as factions, NPCCorporations,
\* agents, the corporations and the agents both holding an id 3
C13_Witness ==
    /\ op = "standings"
    /\ ret.kind = "ok"
    /\ RowsetsRead[1].name = "factions"
    /\ RowsetsRead[3].name = "agents"
    /\ 3 \in DOMAIN ret.result.agents
    /\ 3 \in DOMAIN ret.result.corps
    /\ ret.result.agents[3].name = <<"Agent">>
    /\ ret.result.corps[3].name = <<"Firm">>
    /\ DOMAIN ret.result.factions = {6}

====
